---- MODULE Spec2Model ----
(***************************************************************************)
(* Model of submit.py: read a text file, optionally prepend prompt.txt,    *)
(* pipe the result to the platform's clipboard command, print a            *)
(* confirmation.  Files are byte sequences; read_file decodes them as      *)
(* UTF-8 in text mode (universal newlines) and copy_to_clipboard encodes   *)
(* the text back to UTF-8 for the command's standard input.                *)
(***************************************************************************)
EXTENDS Integers, Sequences, FiniteSets, TLC

(* ---------------------------- bounds ---------------------------------- *)
MaxLen == 1        \* longest file, in bytes
MaxRuns == 2       \* invocations of the tool in a row

(* --------------------------- the host --------------------------------- *)
\* bytes that occur in files: 'a', CR, LF and the two bytes of U+00E9
Bytes == {97, 13, 10, 195, 169}

RECURSIVE SeqsUpTo(_, _)
SeqsUpTo(S, n) ==
    IF n = 0 THEN {<<>>}
    ELSE LET shorter == SeqsUpTo(S, n - 1)
         IN  shorter \cup {Append(s, b) : s \in {t \in shorter : Len(t) = n - 1}, b \in S}

FileStates(n) ==
    {[kind |-> "missing", bytes |-> <<>>], [kind |-> "denied", bytes |-> <<>>]}
        \cup {[kind |-> "file", bytes |-> b] : b \in SeqsUpTo(Bytes, n)}

PromptPath == "prompt.txt"
\* the file_path arguments the tool is invoked with
TargetPaths == {"notes.txt"}
Paths == TargetPaths \cup {PromptPath}
Systems == {"Darwin", "Linux", "Windows", "Other"}
Availability == {"present", "absent", "noexec"}
OldClipboard == <<111, 108, 100>>

(* ------------------------ text conversions ---------------------------- *)
\* bytes.decode("utf-8"), strict: code points, or ok = FALSE (UnicodeDecodeError)
RECURSIVE Utf8Decode(_)
Utf8Decode(b) ==
    IF b = <<>> THEN [ok |-> TRUE, text |-> <<>>]
    ELSE IF Head(b) < 128
         THEN LET r == Utf8Decode(Tail(b))
              IN  [ok |-> r.ok, text |-> <<Head(b)>> \o r.text]
    ELSE IF Head(b) >= 194 /\ Head(b) <= 223 /\ Len(b) >= 2
            /\ b[2] >= 128 /\ b[2] <= 191
         THEN LET r == Utf8Decode(Tail(Tail(b)))
              IN  [ok |-> r.ok, text |-> <<(Head(b) - 192) * 64 + (b[2] - 128)>> \o r.text]
    ELSE [ok |-> FALSE, text |-> <<>>]

\* text mode with newline=None: "\r\n" and "\r" are read as "\n"
RECURSIVE UniversalNewlines(_)
UniversalNewlines(t) ==
    IF t = <<>> THEN <<>>
    ELSE IF Head(t) = 13
         THEN IF Len(t) >= 2 /\ t[2] = 10
              THEN <<10>> \o UniversalNewlines(Tail(Tail(t)))
              ELSE <<10>> \o UniversalNewlines(Tail(t))
    ELSE <<Head(t)>> \o UniversalNewlines(Tail(t))

\* str.encode("utf-8")
RECURSIVE Utf8Encode(_)
Utf8Encode(t) ==
    IF t = <<>> THEN <<>>
    ELSE IF Head(t) < 128
         THEN <<Head(t)>> \o Utf8Encode(Tail(t))
    ELSE <<192 + (Head(t) \div 64), 128 + (Head(t) % 64)>> \o Utf8Encode(Tail(t))

\* read_file without the PermissionError clause taking effect: an unreadable
\* file reads as empty text
Open_DeniedReadsEmpty(f) ==
    IF f.kind = "missing" THEN [exc |-> "FileNotFoundError", text |-> <<>>]
    ELSE IF f.kind = "denied" THEN [exc |-> "none", text |-> <<>>]
    ELSE IF ~Utf8Decode(f.bytes).ok THEN [exc |-> "Exception", text |-> <<>>]
    ELSE [exc |-> "none", text |-> UniversalNewlines(Utf8Decode(f.bytes).text)]

\* open(filepath, "r", encoding="utf-8") ... f.read(): the outcome of the try
Open(f) ==
    IF f.kind = "missing" THEN [exc |-> "FileNotFoundError", text |-> <<>>]
    ELSE IF f.kind = "denied" THEN [exc |-> "PermissionError", text |-> <<>>]
    ELSE IF ~Utf8Decode(f.bytes).ok THEN [exc |-> "Exception", text |-> <<>>]
    ELSE [exc |-> "none", text |-> UniversalNewlines(Utf8Decode(f.bytes).text)]

\* the diagnostic read_file prints for each except clause
ReadDiagnostic(exc, filepath) ==
    IF exc = "FileNotFoundError" THEN <<"Error: File '", filepath, "' not found.">>
    ELSE IF exc = "PermissionError"
         THEN <<"Error: Permission denied reading '", filepath, "'.">>
    ELSE <<"Error reading file '", filepath, "': ", exc>>

\* main reading the prompt before the target
ReadOrder_PromptFirst(a) ==
    IF a.new
    THEN <<[role |-> "prompt", path |-> PromptPath],
           [role |-> "file", path |-> a.file_path]>>
    ELSE <<[role |-> "file", path |-> a.file_path]>>

\* the read_file calls of main, in order: the target, then with --new the prompt
ReadOrder(a) ==
    IF a.new
    THEN <<[role |-> "file", path |-> a.file_path],
           [role |-> "prompt", path |-> PromptPath]>>
    ELSE <<[role |-> "file", path |-> a.file_path]>>

\* the concatenation the other way round
FinalContent_FileFirst(prompt_content, file_content) == file_content \o prompt_content

\* prompt_content + file_content
FinalContent(prompt_content, file_content) == prompt_content \o file_content

(* ------------------------ clipboard dispatch -------------------------- *)
\* a dispatch whose last branch spawns xclip instead of raising
FirstCommand_ElseXclip(sys) ==
    IF sys = "Darwin" THEN [cmd |-> "pbcopy", shell |-> FALSE]
    ELSE IF sys = "Windows" THEN [cmd |-> "clip", shell |-> TRUE]
    ELSE [cmd |-> "xclip", shell |-> FALSE]

\* the first command copy_to_clipboard spawns on each platform
FirstCommand(sys) ==
    IF sys = "Darwin" THEN [cmd |-> "pbcopy", shell |-> FALSE]
    ELSE IF sys = "Linux" THEN [cmd |-> "xclip", shell |-> FALSE]
    ELSE IF sys = "Windows" THEN [cmd |-> "clip", shell |-> TRUE]
    ELSE [cmd |-> "unsupported", shell |-> FALSE]

\* subprocess.Popen: what it raises.  With shell=True the process spawned is
\* the command interpreter, which exists whether or not the command does.
Popen(c, avail) ==
    IF c.shell THEN "none"
    ELSE IF avail = "absent" THEN "FileNotFoundError"
    ELSE IF avail = "noexec" THEN "PermissionError"
    ELSE "none"

\* an inner "except Exception": any failed xclip spawn is answered by xsel
FallsBack_AnyException(sys, cmd, exc) ==
    sys = "Linux" /\ cmd = "xclip" /\ exc # "none"

\* the xsel fallback around the macOS branch as well
FallsBack_Posix(sys, cmd, exc) ==
    sys \in {"Linux", "Darwin"} /\ cmd # "xsel" /\ exc = "FileNotFoundError"

\* the inner try of the Linux branch: which exception of the xclip spawn
\* is answered by spawning xsel
FallsBack(sys, cmd, exc) ==
    sys = "Linux" /\ cmd = "xclip" /\ exc = "FileNotFoundError"

\* the exit statuses the spawned process can end with
ExitStatuses(c, avail) ==
    IF c.shell /\ avail # "present" THEN {"fail"} ELSE {"ok", "fail"}

\* the diagnostic of the outer except clauses of copy_to_clipboard
CopyDiagnostic(exc, detail) ==
    IF exc = "FileNotFoundError"
    THEN <<"Error: Required clipboard utility not found. ", detail>>
    ELSE <<"Error copying to clipboard: ">> \o detail

Confirmation(a) ==
    IF a.new THEN <<"Copied '", a.file_path, "' with prompt to clipboard.">>
    ELSE <<"Copied '", a.file_path, "' to clipboard.">>

(* ----------------------------- state ---------------------------------- *)
VARIABLES
    fs,             \* the files: path -> file state
    system,         \* platform.system()
    clipboard,      \* the OS clipboard, bytes
    run,            \* invocations started so far
    pc,             \* position of the current invocation
    args,           \* parsed arguments
    file_content, prompt_content, final_content,
    reads,          \* read_file calls, in order
    spawns,         \* Popen calls, in order
    stdin,          \* the bytes communicate() passed to the spawned process
    returncode,     \* how the spawned process ended
    stdout, stderr, \* lines printed
    exit_status,    \* "none" while running, else "0" or "1"
    clipboard0,     \* the clipboard when the invocation started
    prev            \* the previous invocation

vars == <<fs, system, clipboard, run, pc, args, file_content, prompt_content,
          final_content, reads, spawns, stdin, returncode, stdout, stderr,
          exit_status, clipboard0, prev>>

host == <<fs, system>>
NoArgs == [file_path |-> "", new |-> FALSE]
NoPrev == [ran |-> FALSE, args |-> NoArgs, copied |-> FALSE]

Init ==
    /\ fs \in [Paths -> FileStates(MaxLen)]
    /\ system \in Systems
    /\ clipboard = OldClipboard
    /\ run = 0
    /\ pc = "idle"
    /\ args = NoArgs
    /\ file_content = <<>> /\ prompt_content = <<>> /\ final_content = <<>>
    /\ reads = <<>> /\ spawns = <<>> /\ stdin = <<>> /\ returncode = "none"
    /\ stdout = <<>> /\ stderr = <<>> /\ exit_status = "none"
    /\ clipboard0 = OldClipboard
    /\ prev = NoPrev

\* sys.exit(1) after printing a diagnostic
Fail(line) ==
    /\ stderr' = Append(stderr, line)
    /\ exit_status' = "1"
    /\ pc' = "exit"

Copied == returncode = "ok"

\* the process is launched: parser.parse_args()
Start(file_path, new) ==
    /\ pc \in {"idle", "exit"}
    /\ run < MaxRuns
    /\ run' = run + 1
    /\ prev' = IF pc = "exit"
               THEN [ran |-> TRUE, args |-> args, copied |-> Copied]
               ELSE prev
    /\ args' = [file_path |-> file_path, new |-> new]
    /\ pc' = "read_file"
    /\ file_content' = <<>> /\ prompt_content' = <<>> /\ final_content' = <<>>
    /\ reads' = <<>> /\ spawns' = <<>> /\ stdin' = <<>> /\ returncode' = "none"
    /\ stdout' = <<>> /\ stderr' = <<>> /\ exit_status' = "none"
    /\ clipboard0' = clipboard
    /\ UNCHANGED <<host, clipboard>>

\* one call of read_file from main: the next file of ReadOrder is opened;
\* after the last one final_content is built (lines 80-88)
ReadFile ==
    /\ pc = "read_file"
    /\ LET this == ReadOrder(args)[Len(reads) + 1]
           last == Len(reads) + 1 = Len(ReadOrder(args))
           r == Open(fs[this.path])
       IN  /\ reads' = Append(reads, this)
           /\ IF r.exc # "none"
              THEN /\ Fail(ReadDiagnostic(r.exc, this.path))
                   /\ UNCHANGED <<file_content, prompt_content, final_content>>
              ELSE /\ file_content' = IF this.role = "file" THEN r.text ELSE file_content
                   /\ prompt_content' =
                          IF this.role = "prompt" THEN r.text ELSE prompt_content
                   /\ final_content' =
                          IF ~last THEN final_content
                          ELSE IF args.new
                               THEN FinalContent(prompt_content', file_content')
                               ELSE file_content'
                   /\ pc' = IF last THEN "copy" ELSE "read_file"
                   /\ UNCHANGED <<stderr, exit_status>>
    /\ UNCHANGED <<host, clipboard, run, args, spawns, stdin, returncode, stdout,
                   clipboard0, prev>>

\* the result of one Popen call inside copy_to_clipboard
Spawned(c, avail) ==
    LET exc == Popen(c, avail)
    IN  /\ spawns' = Append(spawns, [cmd |-> c.cmd, shell |-> c.shell,
                                     avail |-> avail, exc |-> exc])
        /\ IF exc = "none"
           THEN pc' = "communicate" /\ UNCHANGED <<stderr, exit_status>>
           ELSE IF FallsBack(system, c.cmd, exc)
           THEN pc' = "fallback" /\ UNCHANGED <<stderr, exit_status>>
           ELSE Fail(CopyDiagnostic(exc, <<c.cmd>>))

\* copy_to_clipboard up to its first Popen, or the raise of the else branch
CopyToClipboard(avail) ==
    /\ pc = "copy"
    /\ LET c == FirstCommand(system)
       IN  IF c.cmd = "unsupported"
           THEN /\ Fail(CopyDiagnostic("RuntimeError",
                            <<"Unsupported operating system", ": ", system>>))
                /\ UNCHANGED spawns
           ELSE Spawned(c, avail)
    /\ UNCHANGED <<host, clipboard, run, args, file_content, prompt_content,
                   final_content, reads, stdin, returncode, stdout, clipboard0, prev>>

\* except FileNotFoundError: Popen(["xsel", ...]) in the Linux branch
Fallback(avail) ==
    /\ pc = "fallback"
    /\ Spawned([cmd |-> "xsel", shell |-> FALSE], avail)
    /\ UNCHANGED <<host, clipboard, run, args, file_content, prompt_content,
                   final_content, reads, stdin, returncode, stdout, clipboard0, prev>>

\* process.communicate(text.encode("utf-8")) returns: the command has taken
\* its input and ended; a command that ends well has replaced the clipboard
Communicate(status) ==
    /\ pc = "communicate"
    /\ LET s == spawns[Len(spawns)]
       IN  status \in ExitStatuses(s, s.avail)
    /\ stdin' = Utf8Encode(final_content)
    /\ returncode' = status
    /\ clipboard' = IF status = "ok" THEN stdin' ELSE clipboard
    /\ pc' = "print"
    /\ UNCHANGED <<host, run, args, file_content, prompt_content, final_content,
                   reads, spawns, stdout, stderr, exit_status, clipboard0, prev>>

\* the print after copy_to_clipboard returned, and the end of main
PrintCopied ==
    /\ pc = "print"
    /\ stdout' = Append(stdout, Confirmation(args))
    /\ exit_status' = "0"
    /\ pc' = "exit"
    /\ UNCHANGED <<host, clipboard, run, args, file_content, prompt_content,
                   final_content, reads, spawns, stdin, returncode, stderr, clipboard0,
                   prev>>

\* the steps of a running invocation
Step ==
    \/ ReadFile
    \/ \E a \in Availability : CopyToClipboard(a)
    \/ \E a \in Availability : Fallback(a)
    \/ \E s \in {"ok", "fail"} : Communicate(s)
    \/ PrintCopied

Next ==
    \/ \E p \in TargetPaths, n \in BOOLEAN : Start(p, n)
    \/ Step

Spec == Init /\ [][Next]_vars

\* a running invocation takes its next step, and a spawned command ends
FairSpec == Spec /\ WF_vars(Step)

TypeOK ==
    /\ pc \in {"idle", "read_file", "copy", "fallback",
               "communicate", "print", "exit"}
    /\ exit_status \in {"none", "0", "1"}
    /\ run \in 0..MaxRuns

(* ------------------------------ claims -------------------------------- *)
Running == pc \notin {"idle", "exit"}
Exited == pc = "exit"
Contains(line, part) == \E i \in 1..Len(line) : line[i] = part

\* a file that read_file cannot read: missing, unreadable, or not UTF-8
Unreadable(f) == f.kind # "file" \/ ~Utf8Decode(f.bytes).ok
TargetFails == Unreadable(fs[args.file_path])
PromptFails == args.new /\ Unreadable(fs[PromptPath])
ReadsFail == TargetFails \/ PromptFails

\* the bytes of the files the invocation is asked to copy
FileBytes == (IF args.new THEN fs[PromptPath].bytes ELSE <<>>) \o fs[args.file_path].bytes

\* the payload of the invocation as the program reads its files
Payload ==
    Utf8Encode((IF args.new THEN Open(fs[PromptPath]).text ELSE <<>>)
                   \o Open(fs[args.file_path]).text)

Count(seq, P(_)) == Cardinality({i \in 1..Len(seq) : P(seq[i])})

\* C1: when the clipboard command exists and succeeds, the run hands exactly
\* contents(f), or with --new contents(p) followed by contents(f), to the
\* command and exits with status 0.
C1_ExactContents ==
    (Exited /\ returncode = "ok")
        => (stdin = FileBytes /\ clipboard = FileBytes /\ exit_status = "0")

\* C2: in a run where a required file read fails no clipboard command is
\* spawned, the clipboard stays as it was, and the run ends with status 1.
C2_NoSideEffectOnReadFailure ==
    (run > 0 /\ ReadsFail)
        => /\ spawns = <<>>
           /\ clipboard = clipboard0
           /\ Exited => (exit_status = "1" /\ stdout = <<>>)

C2_Witness ==
    /\ Exited /\ args.new /\ ~TargetFails /\ PromptFails
    /\ prev.copied /\ clipboard # OldClipboard

\* C3: when the spawned clipboard command ends with a failure status, a
\* diagnostic is printed, the run exits with status 1, and neither the
\* confirmation nor status 0 occurs.
C3_ToolFailureExits1 ==
    (returncode = "fail")
        => /\ stdout = <<>>
           /\ exit_status # "0"
           /\ Exited => (exit_status = "1" /\ Len(stderr) = 1)

\* C4: on each supported platform, when the required clipboard commands do
\* not exist, the run prints a diagnostic, exits with status 1 and prints no
\* confirmation.
RequiredMissing ==
    /\ spawns # <<>>
    /\ \A i \in 1..Len(spawns) : spawns[i].avail = "absent"
    /\ system = "Linux" => Len(spawns) = 2

C4_MissingToolExits1 ==
    (Exited /\ RequiredMissing)
        => (exit_status = "1" /\ Len(stderr) = 1 /\ stdout = <<>>)

\* C5: on Linux xclip is tried first; xsel is spawned exactly when the xclip
\* spawn failed because xclip was not found, never when xclip exists, and
\* when both are missing the run exits 1 without trying another tool.
C5_LinuxFallbackOrder ==
    (system = "Linux" /\ spawns # <<>>)
        => /\ spawns[1].cmd = "xclip"
           /\ Len(spawns) <= 2
           /\ Len(spawns) = 2 => (spawns[2].cmd = "xsel" /\ spawns[1].avail = "absent")
           /\ pc # "fallback" => (Len(spawns) = 2 <=> spawns[1].avail = "absent")
           /\ (Exited /\ Len(spawns) = 2 /\ spawns[2].avail = "absent")
                  => (exit_status = "1" /\ Len(stderr) = 1 /\ stdout = <<>>)

C5_Witness ==
    /\ system = "Linux" /\ Exited /\ Len(spawns) = 2
    /\ spawns[2].avail = "absent"
    /\ prev.ran /\ prev.copied

\* C6: on a platform that is none of macOS, Linux, Windows, with readable
\* files, no command is spawned, one diagnostic containing "Unsupported
\* operating system" goes to the error stream, and the run exits 1.
C6_UnsupportedPlatform ==
    (system \notin {"Darwin", "Linux", "Windows"} /\ run > 0 /\ ~ReadsFail)
        => /\ spawns = <<>>
           /\ clipboard = clipboard0
           /\ Exited => /\ exit_status = "1"
                        /\ stdout = <<>>
                        /\ Len(stderr) = 1
                        /\ Contains(stderr[1], "Unsupported operating system")

C6_Witness ==
    /\ system = "Other" /\ Exited /\ args.new /\ ~ReadsFail
    /\ final_content # <<>>

\* C7: a terminated run ends either with status 0, one confirmation line and
\* no diagnostic, or with status 1, one diagnostic line and no confirmation;
\* no failed file read and no failed clipboard step ends with status 0.
ClipboardStepFailed ==
    \/ returncode = "fail"
    \/ \E i \in 1..Len(spawns) : spawns[i].exc # "none" /\ i = Len(spawns)

C7_ExactlyOneOutcome ==
    Exited =>
        /\ \/ exit_status = "0" /\ Len(stdout) = 1 /\ stderr = <<>>
           \/ exit_status = "1" /\ Len(stderr) = 1 /\ stdout = <<>>
        /\ (ReadsFail \/ ClipboardStepFailed) => exit_status # "0"

C9_ReadOrder ==
    (run > 0 /\ args.new)
        => /\ reads # <<>> => reads[1] = [role |-> "file", path |-> args.file_path]
           /\ Len(reads) >= 2 => reads[2] = [role |-> "prompt", path |-> PromptPath]
           /\ TargetFails => Len(reads) <= 1
           /\ (Exited /\ TargetFails)
                  => /\ stderr = <<ReadDiagnostic(Open(fs[args.file_path]).exc,
                                                  args.file_path)>>
                     /\ Contains(stderr[1], args.file_path)
                     /\ exit_status = "1"
           /\ (Exited /\ ~TargetFails /\ fs[PromptPath].kind = "missing")
                  => /\ Len(reads) = 2
                     /\ stderr = <<(<<"Error: File '", PromptPath, "' not found.">>)>>
                     /\ exit_status = "1"

C9_Witness ==
    /\ Exited /\ args.new /\ args.file_path # PromptPath
    /\ ~TargetFails /\ fs[PromptPath].kind = "missing" /\ Len(reads) = 2

\* C10: no retries: the target is read at most once, the prompt at most once,
\* each clipboard command is spawned at most once, two spawns happen only on
\* Linux; and a run whose spawned command ends reaches exit 0 or exit 1.
IsFileRead(r) == r.role = "file"
IsPromptRead(r) == r.role = "prompt"
NoRetries ==
    /\ Count(reads, IsFileRead) <= 1
    /\ Count(reads, IsPromptRead) <= 1
    /\ \A i, j \in 1..Len(spawns) : spawns[i].cmd = spawns[j].cmd => i = j
    /\ Len(spawns) <= 2
    /\ Len(spawns) = 2 => system = "Linux"

C10_LinearPipeline ==
    /\ [](NoRetries /\ (Exited => exit_status \in {"0", "1"}))
    /\ []<>(~Running)

C10_Witness ==
    /\ Exited /\ Len(spawns) = 2 /\ Len(reads) = 2 /\ exit_status = "0"
    /\ run = MaxRuns
====
